---------------------------- MODULE Spec2Model ----------------------------
(***************************************************************************)
(* Clipboard manager: the three tables of db/tables.ts and the nine        *)
(* actions of src/actions/index.ts.                                         *)
(*                                                                         *)
(* A table is a set of rows.  A row is a record that holds exactly the     *)
(* columns that are not NULL, and an action input is a record that holds   *)
(* exactly the keys that are not undefined, so "input.f !== undefined" is  *)
(* "f \in DOMAIN input".  Dates are readings of a counter clock.           *)
(***************************************************************************)
EXTENDS Naturals, Sequences, FiniteSets, TLC

VARIABLES
    items,        \* table ClipboardItems
    collections,  \* table ClipboardCollections
    links,        \* table ClipboardCollectionItems
    clock,        \* what new Date() returns now
    request,      \* the last request delivered: [op, caller, input]
    response,     \* its outcome: [kind, data, dbCalls]
    pending       \* per user: that user's request between its ownership check and its write

vars == <<items, collections, links, clock, request, response, pending>>
tables == <<items, collections, links>>

----------------------------------------------------------------------------
(* Bounds *)

MaxItems == 2
MaxCollections == 2
MaxLinks == 2
MaxClock == 1

ItemIdPool == <<"i1", "i2", "i3", "i4">>
CollectionIdPool == <<"c1", "c2", "c3", "c4">>
LinkIdPool == <<"l1", "l2", "l3", "l4", "l5">>

ItemIds == {ItemIdPool[n] : n \in 1..MaxItems}
CollectionIds == {CollectionIdPool[n] : n \in 1..MaxCollections}
LinkIds == {LinkIdPool[n] : n \in 1..MaxLinks}

\* crypto.randomUUID(): an id no row of the table has; the first free one of the pool
FreshIds(pool, max, table) == {n \in 1..max : pool[n] \notin {r.id : r \in table}}
FreshId(pool, max, table) ==
    pool[CHOOSE n \in FreshIds(pool, max, table) :
            \A m \in FreshIds(pool, max, table) : n <= m]

FirstItem == ItemIdPool[1]
SecondItem == ItemIdPool[2]
FirstCollection == CollectionIdPool[1]
SecondCollection == CollectionIdPool[2]

Users == {"A", "B"}
NoUser == "anonymous"
Callers == Users \cup {NoUser}
Idle == [op |-> "idle"]

----------------------------------------------------------------------------
(* Helpers of the handlers *)

requireUser(caller) == caller # NoUser

getOwnedCollection(collectionId, userId) ==
    {c \in collections : c.id = collectionId /\ c.userId = userId}

\* mutant: the item looked up by id alone
getOwnedItemAnyUser(itemId, userId) ==
    {i \in items : i.id = itemId}

getOwnedItem(itemId, userId) ==
    {i \in items : i.id = itemId /\ i.userId = userId}

\* z.string().min(1) on a required key
NonEmptyString(input, key) == key \in DOMAIN input /\ Len(input[key]) >= 1

\* drizzle's .set(): the columns named in set are overwritten, the rest kept
applySet(row, set) ==
    [f \in DOMAIN row \cup DOMAIN set |-> IF f \in DOMAIN set THEN set[f] ELSE row[f]]

Outcome(kind, dbCalls) == [kind |-> kind, dbCalls |-> dbCalls]

\* The response: kind is "ok" or the error code; data the rows returned; total the
\* count a list handler returns; rowsAffected and dbCalls what the db was asked.
Result(kind, data, total, rowsAffected, dbCalls) ==
    [kind |-> kind, data |-> data, total |-> total,
     rowsAffected |-> rowsAffected, dbCalls |-> dbCalls]

Respond(op, caller, input, result) ==
    /\ request' = [op |-> op, caller |-> caller, input |-> input]
    /\ response' = result

Reject(op, caller, input, kind, dbCalls) ==
    /\ Respond(op, caller, input, Result(kind, {}, 0, 0, dbCalls))
    /\ UNCHANGED <<items, collections, links, clock, pending>>

----------------------------------------------------------------------------
(* Clipboard items *)

createClipboardItemInput(input) == NonEmptyString(input, "content")

ItemOptionalColumns ==
    {"contentType", "normalizedPreview", "sourceApp", "sourceDevice", "lastCopiedAt"}

createClipboardItemValues(id, userId, input, now) ==
    [id |-> id,
     userId |-> userId,
     content |-> input.content,
     isPinned |-> IF "isPinned" \in DOMAIN input THEN input.isPinned ELSE FALSE,
     isArchived |-> IF "isArchived" \in DOMAIN input THEN input.isArchived ELSE FALSE,
     createdAt |-> now]
    @@ [f \in DOMAIN input \cap ItemOptionalColumns |-> input[f]]

createClipboardItem(caller, input) ==
    IF ~createClipboardItemInput(input)
    THEN Reject("createClipboardItem", caller, input, "BAD_REQUEST", 0)
    ELSE IF ~requireUser(caller)
    THEN Reject("createClipboardItem", caller, input, "UNAUTHORIZED", 0)
    ELSE LET item == createClipboardItemValues(FreshId(ItemIdPool, MaxItems, items),
                                               caller, input, clock) IN
            /\ FreshIds(ItemIdPool, MaxItems, items) # {}
            /\ items' = items \cup {item}
            /\ Respond("createClipboardItem", caller, input, Result("ok", {item}, 0, 1, 1))
            /\ UNCHANGED <<collections, links, clock, pending>>

ItemUpdateKeys ==
    {"contentType", "content", "normalizedPreview", "sourceApp", "sourceDevice",
     "isPinned", "isArchived", "lastCopiedAt"}

\* mutant: the schema without its refine()
updateClipboardItemInputNoRefine(input) == NonEmptyString(input, "id")

updateClipboardItemInput(input) ==
    /\ NonEmptyString(input, "id")
    /\ DOMAIN input \cap ItemUpdateKeys # {}

\* mutant: the flags default to false as in createClipboardItem
updateClipboardItemSetDefaults(input) ==
    [f \in DOMAIN input \cap ItemUpdateKeys |-> input[f]]
    @@ [isPinned |-> FALSE, isArchived |-> FALSE]

updateClipboardItemSet(input) ==
    [f \in DOMAIN input \cap ItemUpdateKeys |-> input[f]]

updateClipboardItemWrite(input) ==
    {IF i.id = input.id THEN applySet(i, updateClipboardItemSet(input)) ELSE i : i \in items}

\* the handler up to its write: the outcome so far and the db statements issued
updateClipboardItemCheck(caller, input) ==
    IF ~updateClipboardItemInput(input) THEN Outcome("BAD_REQUEST", 0)
    ELSE IF ~requireUser(caller) THEN Outcome("UNAUTHORIZED", 0)
    ELSE IF getOwnedItem(input.id, caller) = {} THEN Outcome("NOT_FOUND", 1)
    ELSE Outcome("ok", 1)

updateClipboardItem(caller, input) ==
    LET check == updateClipboardItemCheck(caller, input) IN
    IF check.kind # "ok"
    THEN Reject("updateClipboardItem", caller, input, check.kind, check.dbCalls)
    ELSE /\ items' = updateClipboardItemWrite(input)
         /\ Respond("updateClipboardItem", caller, input,
                    Result("ok", {i \in items' : i.id = input.id}, 0, 1, 2))
         /\ UNCHANGED <<collections, links, clock, pending>>

\* mutant: the archived filter is pushed when includeArchived is set
listClipboardItemsFiltersInverted(userId, input) ==
    <<[column |-> "userId", value |-> userId]>>
    \o (IF input.includeArchived THEN <<[column |-> "isArchived", value |-> FALSE]>>
        ELSE <<>>)
    \o (IF input.pinnedOnly THEN <<[column |-> "isPinned", value |-> TRUE]>> ELSE <<>>)

\* the filters array: eq(column, value) conditions pushed in order
listClipboardItemsFilters(userId, input) ==
    <<[column |-> "userId", value |-> userId]>>
    \o (IF ~input.includeArchived THEN <<[column |-> "isArchived", value |-> FALSE]>>
        ELSE <<>>)
    \o (IF input.pinnedOnly THEN <<[column |-> "isPinned", value |-> TRUE]>> ELSE <<>>)

\* and(...filters)
and(filters, row) ==
    \A k \in 1..Len(filters) : row[filters[k].column] = filters[k].value

listClipboardItemsQuery(userId, input) ==
    {i \in items : and(listClipboardItemsFilters(userId, input), i)}

\* z.boolean().default(false)
listClipboardItemsInput(input) ==
    [includeArchived |->
        IF "includeArchived" \in DOMAIN input THEN input.includeArchived ELSE FALSE,
     pinnedOnly |-> IF "pinnedOnly" \in DOMAIN input THEN input.pinnedOnly ELSE FALSE]

listClipboardItems(caller, input) ==
    IF ~requireUser(caller)
    THEN Reject("listClipboardItems", caller, input, "UNAUTHORIZED", 0)
    ELSE /\ LET rows == listClipboardItemsQuery(caller, listClipboardItemsInput(input))
            IN  Respond("listClipboardItems", caller, input,
                        Result("ok", rows, Cardinality(rows), 0, 1))
         /\ UNCHANGED <<items, collections, links, clock, pending>>

----------------------------------------------------------------------------
(* Collections *)

createCollectionInput(input) == NonEmptyString(input, "name")

createCollectionValues(id, userId, input, now) ==
    [id |-> id,
     userId |-> userId,
     name |-> input.name,
     isDefault |-> IF "isDefault" \in DOMAIN input THEN input.isDefault ELSE FALSE,
     createdAt |-> now,
     updatedAt |-> now]
    @@ [f \in DOMAIN input \cap {"description", "icon"} |-> input[f]]

createCollection(caller, input) ==
    IF ~createCollectionInput(input)
    THEN Reject("createCollection", caller, input, "BAD_REQUEST", 0)
    ELSE IF ~requireUser(caller)
    THEN Reject("createCollection", caller, input, "UNAUTHORIZED", 0)
    ELSE LET collection == createCollectionValues(
                               FreshId(CollectionIdPool, MaxCollections, collections),
                               caller, input, clock) IN
            /\ FreshIds(CollectionIdPool, MaxCollections, collections) # {}
            /\ collections' = collections \cup {collection}
            /\ Respond("createCollection", caller, input,
                       Result("ok", {collection}, 0, 1, 1))
            /\ UNCHANGED <<items, links, clock, pending>>

CollectionUpdateKeys == {"name", "description", "icon", "isDefault"}

updateCollectionInput(input) ==
    /\ NonEmptyString(input, "id")
    /\ "name" \in DOMAIN input => Len(input.name) >= 1
    /\ DOMAIN input \cap CollectionUpdateKeys # {}

\* mutant: the timestamp is written to the wrong column
updateCollectionSetCreatedAt(input, now) ==
    [f \in DOMAIN input \cap CollectionUpdateKeys |-> input[f]] @@ [createdAt |-> now]

updateCollectionSet(input, now) ==
    [f \in DOMAIN input \cap CollectionUpdateKeys |-> input[f]] @@ [updatedAt |-> now]

updateCollectionWrite(input, now) ==
    {IF c.id = input.id THEN applySet(c, updateCollectionSet(input, now)) ELSE c :
        c \in collections}

\* mutant: the collection is not looked up before the update
updateCollectionCheckNoOwner(caller, input) ==
    IF ~updateCollectionInput(input) THEN Outcome("BAD_REQUEST", 0)
    ELSE IF ~requireUser(caller) THEN Outcome("UNAUTHORIZED", 0)
    ELSE Outcome("ok", 0)

updateCollectionCheck(caller, input) ==
    IF ~updateCollectionInput(input) THEN Outcome("BAD_REQUEST", 0)
    ELSE IF ~requireUser(caller) THEN Outcome("UNAUTHORIZED", 0)
    ELSE IF getOwnedCollection(input.id, caller) = {} THEN Outcome("NOT_FOUND", 1)
    ELSE Outcome("ok", 1)

updateCollection(caller, input) ==
    LET check == updateCollectionCheck(caller, input) IN
    IF check.kind # "ok"
    THEN Reject("updateCollection", caller, input, check.kind, check.dbCalls)
    ELSE /\ collections' = updateCollectionWrite(input, clock)
         /\ Respond("updateCollection", caller, input,
                    Result("ok", {c \in collections' : c.id = input.id}, 0, 1, 2))
         /\ UNCHANGED <<items, links, clock, pending>>

listCollectionsQuery(userId) == {c \in collections : c.userId = userId}

listCollections(caller) ==
    IF ~requireUser(caller)
    THEN Reject("listCollections", caller, <<>>, "UNAUTHORIZED", 0)
    ELSE /\ LET rows == listCollectionsQuery(caller)
            IN  Respond("listCollections", caller, <<>>,
                        Result("ok", rows, Cardinality(rows), 0, 1))
         /\ UNCHANGED <<items, collections, links, clock, pending>>

----------------------------------------------------------------------------
(* Links *)

linkInput(input) == NonEmptyString(input, "collectionId") /\ NonEmptyString(input, "itemId")

addItemToCollectionValues(id, input, now) ==
    [id |-> id, collectionId |-> input.collectionId, itemId |-> input.itemId, addedAt |-> now]

\* mutant: the item's ownership is not checked
linkCheckCollectionOnly(caller, input) ==
    IF ~linkInput(input) THEN Outcome("BAD_REQUEST", 0)
    ELSE IF ~requireUser(caller) THEN Outcome("UNAUTHORIZED", 0)
    ELSE IF getOwnedCollection(input.collectionId, caller) = {} THEN Outcome("NOT_FOUND", 1)
    ELSE Outcome("ok", 2)

\* addItemToCollection and removeItemFromCollection up to their write
linkCheck(caller, input) ==
    IF ~linkInput(input) THEN Outcome("BAD_REQUEST", 0)
    ELSE IF ~requireUser(caller) THEN Outcome("UNAUTHORIZED", 0)
    ELSE IF getOwnedCollection(input.collectionId, caller) = {} THEN Outcome("NOT_FOUND", 1)
    ELSE IF getOwnedItem(input.itemId, caller) = {} THEN Outcome("NOT_FOUND", 2)
    ELSE Outcome("ok", 2)

addItemToCollection(caller, input) ==
    LET check == linkCheck(caller, input) IN
    IF check.kind # "ok"
    THEN Reject("addItemToCollection", caller, input, check.kind, check.dbCalls)
    ELSE LET link == addItemToCollectionValues(FreshId(LinkIdPool, MaxLinks, links),
                                                  input, clock) IN
            /\ FreshIds(LinkIdPool, MaxLinks, links) # {}
            /\ links' = links \cup {link}
            /\ Respond("addItemToCollection", caller, input, Result("ok", {link}, 0, 1, 3))
            /\ UNCHANGED <<items, collections, clock, pending>>

\* mutant: the delete stops at the first matching row
removeItemFromCollectionMatchOne(input) ==
    LET match == {l \in links : l.collectionId = input.collectionId /\ l.itemId = input.itemId}
    IN  IF match = {} THEN {} ELSE {CHOOSE l \in match : TRUE}

removeItemFromCollectionMatch(input) ==
    {l \in links : l.collectionId = input.collectionId /\ l.itemId = input.itemId}

\* mutant: rowsAffected <= 1 throws
removeItemFromCollectionResultAtMostOne(input) ==
    IF Cardinality(removeItemFromCollectionMatch(input)) <= 1 THEN "NOT_FOUND" ELSE "ok"

\* result.rowsAffected === 0 throws after the delete has run
removeItemFromCollectionResult(input) ==
    IF Cardinality(removeItemFromCollectionMatch(input)) = 0 THEN "NOT_FOUND" ELSE "ok"

removeItemFromCollection(caller, input) ==
    LET check == linkCheck(caller, input) IN
    IF check.kind # "ok"
    THEN Reject("removeItemFromCollection", caller, input, check.kind, check.dbCalls)
    ELSE /\ links' = links \ removeItemFromCollectionMatch(input)
         /\ Respond("removeItemFromCollection", caller, input,
                    Result(removeItemFromCollectionResult(input), {}, 0,
                           Cardinality(removeItemFromCollectionMatch(input)), 3))
         /\ UNCHANGED <<items, collections, clock, pending>>

listCollectionItemsQuery(collectionId) ==
    LET itemIds == {l.itemId : l \in {k \in links : k.collectionId = collectionId}}
    IN  {i \in items : i.id \in itemIds}

listCollectionItemsInput(input) == NonEmptyString(input, "collectionId")

listCollectionItems(caller, input) ==
    IF ~listCollectionItemsInput(input)
    THEN Reject("listCollectionItems", caller, input, "BAD_REQUEST", 0)
    ELSE IF ~requireUser(caller)
    THEN Reject("listCollectionItems", caller, input, "UNAUTHORIZED", 0)
    ELSE IF getOwnedCollection(input.collectionId, caller) = {}
    THEN Reject("listCollectionItems", caller, input, "NOT_FOUND", 1)
    ELSE /\ LET rows == listCollectionItemsQuery(input.collectionId)
            IN  Respond("listCollectionItems", caller, input,
                        Result("ok", rows, Cardinality(rows), 0,
                               IF {k \in links : k.collectionId = input.collectionId} = {}
                               THEN 2 ELSE 3))
         /\ UNCHANGED <<items, collections, links, clock, pending>>

----------------------------------------------------------------------------
(* The clock behind new Date() *)

Tick ==
    /\ clock < MaxClock
    /\ clock' = clock + 1
    /\ UNCHANGED <<items, collections, links, request, response, pending>>

----------------------------------------------------------------------------
(* The handlers whose ownership check and write are separate awaits, run by   *)
(* the two users concurrently: Begin is the handler up to its write, the     *)
(* Write actions are the db statement after the check and the rest of the    *)
(* handler.                                                                  *)

Begin(op, caller, input, check) ==
    /\ pending[caller] = Idle
    /\ IF check.kind # "ok"
       THEN Reject(op, caller, input, check.kind, check.dbCalls)
       ELSE /\ pending' = [pending EXCEPT ![caller] = [op |-> op, input |-> input]]
            /\ UNCHANGED <<items, collections, links, clock, request, response>>

BeginUpdateClipboardItem(caller, input) ==
    Begin("updateClipboardItem", caller, input, updateClipboardItemCheck(caller, input))

BeginUpdateCollection(caller, input) ==
    Begin("updateCollection", caller, input, updateCollectionCheck(caller, input))

BeginAddItemToCollection(caller, input) ==
    Begin("addItemToCollection", caller, input, linkCheck(caller, input))

BeginRemoveItemFromCollection(caller, input) ==
    Begin("removeItemFromCollection", caller, input, linkCheck(caller, input))

WriteUpdateClipboardItem(caller) ==
    /\ pending[caller].op = "updateClipboardItem"
    /\ items' = updateClipboardItemWrite(pending[caller].input)
    /\ Respond(pending[caller].op, caller, pending[caller].input,
               Result("ok", {i \in items' : i.id = pending[caller].input.id}, 0, 1, 2))
    /\ pending' = [pending EXCEPT ![caller] = Idle]
    /\ UNCHANGED <<collections, links, clock>>

WriteUpdateCollection(caller) ==
    /\ pending[caller].op = "updateCollection"
    /\ collections' = updateCollectionWrite(pending[caller].input, clock)
    /\ Respond(pending[caller].op, caller, pending[caller].input,
               Result("ok", {c \in collections' : c.id = pending[caller].input.id}, 0, 1, 2))
    /\ pending' = [pending EXCEPT ![caller] = Idle]
    /\ UNCHANGED <<items, links, clock>>

WriteAddItemToCollection(caller) ==
    /\ pending[caller].op = "addItemToCollection"
    /\ LET link == addItemToCollectionValues(FreshId(LinkIdPool, MaxLinks, links),
                                             pending[caller].input, clock) IN
       /\ FreshIds(LinkIdPool, MaxLinks, links) # {}
       /\ links' = links \cup {link}
       /\ Respond(pending[caller].op, caller, pending[caller].input,
                  Result("ok", {link}, 0, 1, 3))
    /\ pending' = [pending EXCEPT ![caller] = Idle]
    /\ UNCHANGED <<items, collections, clock>>

WriteRemoveItemFromCollection(caller) ==
    /\ pending[caller].op = "removeItemFromCollection"
    /\ links' = links \ removeItemFromCollectionMatch(pending[caller].input)
    /\ Respond(pending[caller].op, caller, pending[caller].input,
               Result(removeItemFromCollectionResult(pending[caller].input), {}, 0,
                      Cardinality(removeItemFromCollectionMatch(pending[caller].input)), 3))
    /\ pending' = [pending EXCEPT ![caller] = Idle]
    /\ UNCHANGED <<items, collections, clock>>

----------------------------------------------------------------------------
Init ==
    /\ items = {}
    /\ collections = {}
    /\ links = {}
    /\ clock = 0
    /\ request = [op |-> "none", caller |-> NoUser, input |-> [id |-> ""]]
    /\ response = Result("none", {}, 0, 0, 0)
    /\ pending = [u \in Users |-> Idle]

----------------------------------------------------------------------------
(* Spec: all nine handlers, each request served in one step, for two users   *)
(* and the anonymous caller.                                                 *)

CreateItemInputs == {[content |-> "a"], [content |-> ""]}
UpdateItemInputs == {[id |-> FirstItem]} \cup {[id |-> id, isPinned |-> TRUE] : id \in ItemIds}
CreateCollectionInputs == {[name |-> "n"], [name |-> ""]}
UpdateCollectionInputs ==
    {[id |-> FirstCollection]} \cup {[id |-> id, name |-> "m"] : id \in CollectionIds}
LinkInputs == {[collectionId |-> c, itemId |-> i] : c \in CollectionIds, i \in ItemIds}
ListItemsInputs == {[includeArchived |-> TRUE]}
ListCollectionItemsInputs == {[collectionId |-> c] : c \in CollectionIds}

\* what the anonymous caller sends: one request per shape
AnonymousItemUpdates == {[id |-> FirstItem], [id |-> FirstItem, isPinned |-> TRUE]}
AnonymousCollectionUpdates == {[id |-> FirstCollection], [id |-> FirstCollection, name |-> "m"]}
AnonymousLinkInputs == {[collectionId |-> FirstCollection, itemId |-> FirstItem]}

UserRequest(caller) ==
    \/ \E input \in CreateItemInputs : createClipboardItem(caller, input)
    \/ \E input \in UpdateItemInputs : updateClipboardItem(caller, input)
    \/ \E input \in ListItemsInputs : listClipboardItems(caller, input)
    \/ \E input \in CreateCollectionInputs : createCollection(caller, input)
    \/ \E input \in UpdateCollectionInputs : updateCollection(caller, input)
    \/ listCollections(caller)
    \/ \E input \in LinkInputs : addItemToCollection(caller, input)
    \/ \E input \in LinkInputs : removeItemFromCollection(caller, input)
    \/ \E input \in ListCollectionItemsInputs : listCollectionItems(caller, input)

AnonymousRequest ==
    \/ createClipboardItem(NoUser, [content |-> "a"])
    \/ \E input \in AnonymousItemUpdates : updateClipboardItem(NoUser, input)
    \/ listClipboardItems(NoUser, [includeArchived |-> TRUE])
    \/ createCollection(NoUser, [name |-> "n"])
    \/ \E input \in AnonymousCollectionUpdates : updateCollection(NoUser, input)
    \/ listCollections(NoUser)
    \/ \E input \in AnonymousLinkInputs : addItemToCollection(NoUser, input)
    \/ \E input \in AnonymousLinkInputs : removeItemFromCollection(NoUser, input)
    \/ listCollectionItems(NoUser, [collectionId |-> FirstCollection])

Next == (\E caller \in Users : UserRequest(caller)) \/ AnonymousRequest

Spec == Init /\ [][Next]_vars

----------------------------------------------------------------------------
(* SpecItems: the three item handlers over the flags and the content.        *)

NoInput == [f \in {} |-> TRUE]

ItemsCreateInputs ==
    {[content |-> "a"],
     [content |-> "a", isPinned |-> TRUE],
     [content |-> "a", isArchived |-> TRUE],
     [content |-> "a", isPinned |-> TRUE, isArchived |-> TRUE],
     [content |-> ""],
     [isPinned |-> TRUE]}

ItemsUpdateInputs ==
    UNION {{[id |-> id],
            [id |-> id, isPinned |-> TRUE],
            [id |-> id, isPinned |-> FALSE],
            [id |-> id, isArchived |-> TRUE],
            [id |-> id, isArchived |-> FALSE],
            [id |-> id, content |-> ""]} : id \in ItemIds}

ItemsListInputs ==
    {NoInput, [pinnedOnly |-> TRUE], [includeArchived |-> TRUE]}
    \cup {[includeArchived |-> a, pinnedOnly |-> p] : a \in BOOLEAN, p \in BOOLEAN}

NextItems ==
    \E caller \in Users :
        \/ \E input \in ItemsCreateInputs : createClipboardItem(caller, input)
        \/ \E input \in ItemsUpdateInputs : updateClipboardItem(caller, input)
        \/ \E input \in ItemsListInputs : listClipboardItems(caller, input)

SpecItems == Init /\ [][NextItems]_vars

----------------------------------------------------------------------------
(* SpecUpdate: the two update handlers over different sets of supplied keys, *)
(* with the clock running; the second item, the second collection and the    *)
(* links are the rows an update must leave alone.                            *)

UpdateCreateItemInputs ==
    {[content |-> "a", contentType |-> "text"]}

UpdateItemPatches ==
    {[id |-> FirstItem, isPinned |-> TRUE],
     [id |-> FirstItem, content |-> "b", contentType |-> "url"],
     [id |-> FirstItem, normalizedPreview |-> "b", sourceApp |-> "VS Code",
      sourceDevice |-> "phone", isArchived |-> TRUE, lastCopiedAt |-> 1]}

UpdateCreateCollectionInputs ==
    {[name |-> "n", description |-> "d"]}

UpdateCollectionPatches ==
    {[id |-> FirstCollection, name |-> "m"],
     [id |-> FirstCollection, name |-> ""],
     [id |-> FirstCollection, description |-> "e", icon |-> "y"],
     [id |-> FirstCollection, isDefault |-> TRUE]}

UpdateLinkInputs == {[collectionId |-> c, itemId |-> FirstItem] : c \in CollectionIds}

NextUpdate ==
    \/ Tick
    \/ \E input \in UpdateCreateItemInputs : createClipboardItem("A", input)
    \/ \E input \in UpdateItemPatches : updateClipboardItem("A", input)
    \/ \E input \in UpdateCreateCollectionInputs : createCollection("A", input)
    \/ \E input \in UpdateCollectionPatches : updateCollection("A", input)
    \/ \E input \in UpdateLinkInputs : addItemToCollection("A", input)

SpecUpdate == Init /\ [][NextUpdate]_vars

----------------------------------------------------------------------------
(* SpecCollections: the collection handlers of the two users with the clock  *)
(* running.                                                                  *)

CollectionsCreateInputs == {[name |-> "n"], [name |-> "n", isDefault |-> TRUE]}

CollectionsUpdateInputs ==
    UNION {{[id |-> id, name |-> "m"],
            [id |-> id, name |-> ""],
            [id |-> id, description |-> "d", isDefault |-> FALSE]} :
                id \in {FirstCollection, SecondCollection}}

NextCollections ==
    \/ Tick
    \/ \E caller \in Users :
        \/ \E input \in CollectionsCreateInputs : createCollection(caller, input)
        \/ \E input \in CollectionsUpdateInputs : updateCollection(caller, input)
        \/ listCollections(caller)

SpecCollections == Init /\ [][NextCollections]_vars

-----------------------------------------------------------------------------
(* SpecLinks: the three link handlers over every pair of a collection and an *)
(* item of the two users.                                                    *)

LinksLinkInputs ==
    {[collectionId |-> c, itemId |-> i] :
        c \in {FirstCollection, SecondCollection}, i \in {FirstItem, SecondItem}}
LinksListInputs == {[collectionId |-> c] : c \in {FirstCollection, SecondCollection}}

NextLinks ==
    \E caller \in Users :
        \/ createClipboardItem(caller, [content |-> "a"])
        \/ createCollection(caller, [name |-> "n"])
        \/ \E input \in LinksLinkInputs : addItemToCollection(caller, input)
        \/ \E input \in LinksLinkInputs : removeItemFromCollection(caller, input)
        \/ \E input \in LinksListInputs : listCollectionItems(caller, input)

SpecLinks == Init /\ [][NextLinks]_vars

----------------------------------------------------------------------------
(* SpecRace: the two users' handlers interleave between the ownership check  *)
(* and the write.                                                            *)

RaceItemUpdates == {[id |-> FirstItem, isPinned |-> TRUE]}
RaceCollectionUpdates == {[id |-> FirstCollection, name |-> "m"]}
RaceLinkInputs ==
    {[collectionId |-> FirstCollection, itemId |-> i] : i \in {FirstItem, SecondItem}}

NextRace ==
    \E caller \in Users :
        \/ createClipboardItem(caller, [content |-> "a"])
        \/ createCollection(caller, [name |-> "n"])
        \/ \E input \in RaceItemUpdates : BeginUpdateClipboardItem(caller, input)
        \/ \E input \in RaceCollectionUpdates : BeginUpdateCollection(caller, input)
        \/ \E input \in RaceLinkInputs : BeginAddItemToCollection(caller, input)
        \/ \E input \in RaceLinkInputs : BeginRemoveItemFromCollection(caller, input)
        \/ WriteUpdateClipboardItem(caller)
        \/ WriteUpdateCollection(caller)
        \/ WriteAddItemToCollection(caller)
        \/ WriteRemoveItemFromCollection(caller)

SpecRace == Init /\ [][NextRace]_vars

----------------------------------------------------------------------------
(* Properties *)

ForeignItem(caller, id) == \E i \in items : i.id = id /\ i.userId # caller
ForeignCollection(caller, id) == \E c \in collections : c.id = id /\ c.userId # caller

\* the last request was sent by a user and names a row that another user created
ReferencesForeign ==
    /\ request.caller \in Users
    /\ CASE request.op = "updateClipboardItem" ->
                ForeignItem(request.caller, request.input.id)
         [] request.op = "updateCollection" ->
                ForeignCollection(request.caller, request.input.id)
         [] request.op \in {"addItemToCollection", "removeItemFromCollection"} ->
                \/ ForeignCollection(request.caller, request.input.collectionId)
                \/ ForeignItem(request.caller, request.input.itemId)
         [] request.op = "listCollectionItems" ->
                ForeignCollection(request.caller, request.input.collectionId)
         [] OTHER -> FALSE

ListsOwnRowsOnly ==
    request.op \in {"listClipboardItems", "listCollections"} =>
        \A r \in response.data : r.userId = request.caller

\* the last request has at least one of the optional keys of its update schema
SuppliesField ==
    /\ request.op = "updateClipboardItem" => DOMAIN request.input \cap ItemUpdateKeys # {}
    /\ request.op = "updateCollection" => DOMAIN request.input \cap CollectionUpdateKeys # {}

\* C1 as stated: every request of a user that names a row of another user fails
\* with NOT_FOUND, and the two list handlers return only the caller's rows.
C1_AnyRequestNotFound ==
    /\ ReferencesForeign => response.kind = "NOT_FOUND"
    /\ ListsOwnRowsOnly

\* C1 (amended): every request of a user that names a row of another user and
\* supplies at least one field to update fails with NOT_FOUND and returns no row,
\* also when both ids of a link request exist; the two list handlers return only
\* rows the caller created.
C1_OwnershipIsolation ==
    /\ ReferencesForeign /\ SuppliesField =>
            response.kind = "NOT_FOUND" /\ response.data = {}
    /\ ListsOwnRowsOnly

C1_Witness ==
    /\ request.op = "addItemToCollection"
    /\ request.caller = "B"
    /\ \E c \in collections : c.id = request.input.collectionId /\ c.userId = "B"
    /\ \E i \in items : i.id = request.input.itemId /\ i.userId = "A"
    /\ response.kind = "NOT_FOUND"

ZeroFieldUpdate(req) ==
    /\ req.op \in {"updateClipboardItem", "updateCollection"}
    /\ DOMAIN req.input = {"id"}

\* C3: an update request that carries only an id is answered BAD_REQUEST with no
\* db statement issued and the three tables as they were, whoever sends it and
\* whether the id is the caller's, another user's or nobody's.
C3_ZeroFieldRejected ==
    [][ZeroFieldUpdate(request') =>
            /\ response'.kind = "BAD_REQUEST"
            /\ response'.dbCalls = 0
            /\ tables' = tables]_vars

C3_Witness ==
    /\ ZeroFieldUpdate(request)
    /\ response.kind = "BAD_REQUEST"
    /\ \/ request.op = "updateClipboardItem"
          /\ \E i \in items : i.id = request.input.id /\ i.userId = request.caller
       \/ request.op = "updateCollection"
          /\ \E c \in collections : c.id = request.input.id /\ c.userId = request.caller

SamePair(l, input) == l.collectionId = input.collectionId /\ l.itemId = input.itemId

\* what listCollectionItems(collectionId) answers the caller in this state
Listed(caller, collectionId) ==
    IF \E c \in collections : c.id = collectionId /\ c.userId = caller
    THEN {i.id : i \in listCollectionItemsQuery(collectionId)}
    ELSE {}

C5_RoundTrip ==
    /\ request.op = "addItemToCollection" /\ response.kind = "ok" =>
            request.input.itemId \in Listed(request.caller, request.input.collectionId)
    /\ request.op = "removeItemFromCollection" /\ response.kind = "ok" =>
            /\ request.input.itemId \notin Listed(request.caller, request.input.collectionId)
            /\ \A l \in links : ~SamePair(l, request.input)

C5_Frame ==
    request'.op \in {"addItemToCollection", "removeItemFromCollection"}
    /\ response'.kind = "ok" =>
        /\ {l \in links' : ~SamePair(l, request'.input)}
                = {l \in links : ~SamePair(l, request'.input)}
        /\ items' = items
        /\ collections' = collections

\* C5: right after a successful addItemToCollection(c, i) the caller's
\* listCollectionItems(c) contains i; right after a successful
\* removeItemFromCollection(c, i) it does not and no link row of the pair is left,
\* however many there were; the link rows of every other pair are untouched.
C5_LinkLifecycle == [][C5_RoundTrip' /\ C5_Frame]_vars

C5_Witness ==
    /\ request.op = "removeItemFromCollection"
    /\ response.kind = "ok"
    /\ response.rowsAffected = 2

\* C8: a request answered with an error leaves the three tables as they were, and
\* one answered UNAUTHORIZED has issued no db statement.
C8_NoPartialSuccess ==
    [][response'.kind \notin {"ok", "none"} =>
            /\ tables' = tables
            /\ response'.kind = "UNAUTHORIZED" => response'.dbCalls = 0]_vars

C8_Witness ==
    /\ request.op = "removeItemFromCollection"
    /\ response.kind = "NOT_FOUND"
    /\ response.dbCalls = 3
    /\ links # {}

\* C9: every link row names an existing collection and an existing item of the
\* same user, and listCollectionItems returns only items of the caller.
C9_LinkOwnership ==
    /\ \A l \in links :
            \E c \in collections, i \in items :
                c.id = l.collectionId /\ i.id = l.itemId /\ c.userId = i.userId
    /\ request.op = "listCollectionItems" /\ response.kind = "ok" =>
            \A i \in response.data : i.userId = request.caller

C9_Witness ==
    /\ request.op = "listCollectionItems"
    /\ response.kind = "ok"
    /\ response.data # {}
    /\ \E i \in items : i.userId # request.caller

\* a step that serves a request in one piece (not a tick of the clock)
Served(op) == clock' = clock /\ request'.op = op /\ response'.kind = "ok"

\* new is old with the keys of set overwritten and nothing else touched
Patched(old, new, set) ==
    /\ \A f \in DOMAIN set : f \in DOMAIN new /\ new[f] = set[f]
    /\ \A f \in (DOMAIN old \cup DOMAIN new) \ DOMAIN set :
            f \in DOMAIN old /\ f \in DOMAIN new /\ new[f] = old[f]

C2_Item ==
    Served("updateClipboardItem") =>
        /\ \E old \in items, new \in items' :
            /\ old.id = request'.input.id
            /\ items' \ {new} = items \ {old}
            /\ Patched(old, new,
                       [f \in DOMAIN request'.input \cap ItemUpdateKeys |-> request'.input[f]])
        /\ collections' = collections
        /\ links' = links

C2_Collection ==
    Served("updateCollection") =>
        /\ \E old \in collections, new \in collections' :
            /\ old.id = request'.input.id
            /\ collections' \ {new} = collections \ {old}
            /\ Patched(old, new,
                       [f \in DOMAIN request'.input \cap CollectionUpdateKeys
                            |-> request'.input[f]] @@ [updatedAt |-> clock])
        /\ items' = items
        /\ links' = links

\* C2: a successful updateClipboardItem gives the row of that id the values of the
\* keys supplied and changes nothing else of it; a successful updateCollection does
\* the same and sets updatedAt to the time of the update; every other row of the
\* three tables is as before.
C2_PartialUpdate == [][C2_Item /\ C2_Collection]_vars

C2_Witness ==
    /\ request.op = "updateClipboardItem"
    /\ response.kind = "ok"
    /\ DOMAIN request.input = {"id", "isPinned"}
    /\ \E i \in response.data :
            i.content = "b" /\ i.isArchived /\ i.sourceApp = "VS Code" /\ i.createdAt < clock
    /\ Cardinality(items) = 2
    /\ Cardinality(collections) = 2
    /\ links # {}

C6_Created ==
    request.op = "createCollection" /\ response.kind = "ok" =>
        \A c \in response.data : c.updatedAt = c.createdAt

C6_NeverBefore == \A c \in collections : c.updatedAt >= c.createdAt

C6_NonDecreasing ==
    Served("updateCollection") =>
        \A old \in collections, new \in collections' :
            old.id = new.id => new.updatedAt >= old.updatedAt /\ new.createdAt = old.createdAt

C6_Differs ==
    request.op = "updateCollection" /\ response.kind = "ok" =>
        \A c \in response.data : c.updatedAt # c.createdAt

\* C6 as stated: ..., and after a successful update updatedAt differs from
\* createdAt.
C6_AlwaysDiffers ==
    [][C6_Created' /\ C6_NeverBefore' /\ C6_NonDecreasing /\ C6_Differs']_vars

\* C6 (amended): a collection is created with updatedAt equal to createdAt, a
\* successful updateCollection never lowers updatedAt and leaves createdAt alone,
\* and updatedAt is never less than createdAt (it may equal it after an update).
C6_UpdatedAtMonotone == [][C6_Created' /\ C6_NeverBefore' /\ C6_NonDecreasing]_vars

C6_Witness ==
    /\ request.op = "updateCollection"
    /\ response.kind = "ok"
    /\ \E c \in response.data : c.createdAt < c.updatedAt
    /\ \E c \in collections : c.id # request.input.id /\ c.createdAt > 0

\* C4: listClipboardItems returns exactly the caller's items that are not archived
\* unless includeArchived is set, and pinned if pinnedOnly is set, and total is
\* their number; both options default to false.
C4_ListFilter ==
    request.op = "listClipboardItems" /\ response.kind = "ok" =>
        LET includeArchived ==
                "includeArchived" \in DOMAIN request.input /\ request.input.includeArchived
            pinnedOnly == "pinnedOnly" \in DOMAIN request.input /\ request.input.pinnedOnly
            expected == {i \in items :
                            /\ i.userId = request.caller
                            /\ includeArchived \/ ~i.isArchived
                            /\ ~pinnedOnly \/ i.isPinned}
        IN  response.data = expected /\ response.total = Cardinality(expected)

C4_Witness ==
    /\ request.op = "listClipboardItems"
    /\ DOMAIN request.input = {"pinnedOnly"}
    /\ request.input.pinnedOnly
    /\ response.total = 1
    /\ \E i \in items : i.userId = request.caller /\ i.isPinned /\ i.isArchived
    /\ \E i \in items : i.userId = request.caller /\ i.isPinned /\ ~i.isArchived

\* C7: every clipboard item has a non-empty content and every collection a
\* non-empty name.
C7_NonEmpty ==
    /\ \A i \in items : Len(i.content) >= 1
    /\ \A c \in collections : Len(c.name) >= 1

WriteBy(u) == pending[u] # Idle /\ pending'[u] = Idle

Changed(before, after) == (before \ after) \cup (after \ before)

\* C10: the write a user's handler issues after its ownership check, whatever the
\* other user's handlers did in between, changes only items and collections of
\* that user, and inserts or deletes only links of a collection and an item of
\* that user.
C10_WritesOwnRows ==
    [][\A u \in Users :
        WriteBy(u) =>
            /\ \A r \in Changed(items, items') \cup Changed(collections, collections') :
                    r.userId = u
            /\ \A l \in Changed(links, links') :
                    /\ \E c \in collections : c.id = l.collectionId /\ c.userId = u
                    /\ \E i \in items : i.id = l.itemId /\ i.userId = u]_vars

C10_Witness ==
    /\ request.op = "removeItemFromCollection"
    /\ request.caller = "A"
    /\ response.kind = "ok"
    /\ pending["B"] # Idle
    /\ pending["B"].op = "updateClipboardItem"
    /\ \E i \in items : i.id = pending["B"].input.id /\ i.userId = "B"

=============================================================================
